---- MODULE Spec2Model ----
(***************************************************************************)
(* Model of the match-save route, POST /api/matches, of the sports         *)
(* matchmaking backend (src/unnamed/part_000, lines 222-298): structural   *)
(* validation, the per-player $inc documents, the player upserts and the   *)
(* final match write.                                                      *)
(*                                                                         *)
(* JSON values are records [t, n, s]: t the type tag, n the payload of a   *)
(* number (in tenths, so 43 is the literal 4.3) or a boolean (1 / 0), s    *)
(* the characters of a string.  A missing property reads as Undefined.     *)
(***************************************************************************)
EXTENDS Integers, Sequences, FiniteSets, TLC

\* ------------------------------------------------------------------ bounds
MaxReq == 2
MaxXi == 2
MaxEntries == 2
MaxInnings == 2
MaxOvers == 4
MaxPosts == 2
MaxCalls == 3
MaxRegs == 2
MaxBulk == 2
MaxEvents == 2
MaxLoops == 3

\* ------------------------------------------------------------- JSON values
Undefined == [t |-> "undefined", n |-> 0, s |-> <<>>]
Null == [t |-> "null", n |-> 0, s |-> <<>>]
Obj == [t |-> "object", n |-> 0, s |-> <<>>]
Bool(b) == [t |-> "boolean", n |-> IF b THEN 1 ELSE 0, s |-> <<>>]
Num(tenths) == [t |-> "number", n |-> tenths, s |-> <<>>]
Int10(i) == Num(10 * i)
Str(chars) == [t |-> "string", n |-> 0, s |-> chars]

\* JavaScript numbers met by the route: NaN, or the double nearest to
\* tenths / 10.
NaN == [nan |-> TRUE, tenths |-> 0]
Finite(tenths) == [nan |-> FALSE, tenths |-> tenths]

Digits == <<"0", "1", "2", "3", "4", "5", "6", "7", "8", "9">>
UpperAlphabet ==
    <<"A", "B", "C", "D", "E", "F", "G", "H", "I", "J", "K", "L", "M",
      "N", "O", "P", "Q", "R", "S", "T", "U", "V", "W", "X", "Y", "Z">>
LowerAlphabet ==
    <<"a", "b", "c", "d", "e", "f", "g", "h", "i", "j", "k", "l", "m",
      "n", "o", "p", "q", "r", "s", "t", "u", "v", "w", "x", "y", "z">>

IsDigit(c) == \E i \in 1..10 : Digits[i] = c
DigitValue(c) == (CHOOSE i \in 1..10 : Digits[i] = c) - 1

\* String.prototype.trim, for the space character.
RECURSIVE TrimLeft(_)
TrimLeft(cs) ==
    IF cs # <<>> /\ Head(cs) = " " THEN TrimLeft(Tail(cs)) ELSE cs
RECURSIVE TrimRight(_)
TrimRight(cs) ==
    IF cs # <<>> /\ cs[Len(cs)] = " "
    THEN TrimRight(SubSeq(cs, 1, Len(cs) - 1))
    ELSE cs
Trim(cs) == TrimRight(TrimLeft(cs))

RECURSIVE DigitsValue(_)
DigitsValue(cs) ==
    IF cs = <<>> THEN 0
    ELSE 10 * DigitsValue(SubSeq(cs, 1, Len(cs) - 1)) + DigitValue(cs[Len(cs)])

AllDigits(cs) == cs # <<>> /\ \A i \in 1..Len(cs) : IsDigit(cs[i])

\* StringToNumber on an unsigned literal: digits, or digits "." one digit.
UnsignedToNumber(cs) ==
    IF AllDigits(cs) THEN Finite(10 * DigitsValue(cs))
    ELSE IF /\ Len(cs) >= 3
            /\ cs[Len(cs) - 1] = "."
            /\ AllDigits(SubSeq(cs, 1, Len(cs) - 2))
            /\ IsDigit(cs[Len(cs)])
    THEN Finite(10 * DigitsValue(SubSeq(cs, 1, Len(cs) - 2)) + DigitValue(cs[Len(cs)]))
    ELSE NaN

\* StringToNumber: white space is trimmed, the empty string is 0, a decimal
\* literal is its value, and any other text is NaN.
StringToNumber(cs) ==
    LET body == Trim(cs) IN
    IF body = <<>> THEN Finite(0)
    ELSE IF Head(body) = "-"
    THEN LET u == UnsignedToNumber(Tail(body)) IN
         IF u.nan THEN NaN ELSE Finite(0 - u.tenths)
    ELSE UnsignedToNumber(body)

\* Number(v).
ToNumber(v) ==
    CASE v.t = "undefined" -> NaN
      [] v.t = "null" -> Finite(0)
      [] v.t = "boolean" -> Finite(10 * v.n)
      [] v.t = "number" -> Finite(v.n)
      [] v.t = "string" -> StringToNumber(v.s)
      [] OTHER -> NaN

\* ToBoolean(v): undefined, null, false, 0, NaN and "" are falsy.
Truthy(v) ==
    CASE v.t = "undefined" -> FALSE
      [] v.t = "null" -> FALSE
      [] v.t = "boolean" -> v.n = 1
      [] v.t = "number" -> v.n # 0
      [] v.t = "string" -> v.s # <<>>
      [] OTHER -> TRUE

\* Number(v) || 0
NumberOrZero(v) ==
    LET x == ToNumber(v) IN
    IF x.nan \/ x.tenths = 0 THEN Finite(0) ELSE x

\* ------------------------------------------------- IEEE-754 double arithmetic
(***************************************************************************)
(* A non-negative binary fixed-point number is a sequence of NumLimbs      *)
(* limbs of LimbBits bits each, least significant first; the last limb is  *)
(* the integer part and the FracLimbs limbs before it the fraction.  Every *)
(* double the route computes from bowling figures lies on this grid, so a  *)
(* double operation is the exact operation followed by RoundDouble, round  *)
(* to nearest, ties to even.                                               *)
(***************************************************************************)
LimbBits == 24
FracLimbs == 3
MantissaBits == 53
NumLimbs == FracLimbs + 1

Pow2Table ==
    <<1, 2, 4, 8, 16, 32, 64, 128, 256, 512, 1024, 2048, 4096, 8192, 16384,
      32768, 65536, 131072, 262144, 524288, 1048576, 2097152, 4194304,
      8388608, 16777216, 33554432, 67108864, 134217728, 268435456>>
Pow2(k) == Pow2Table[k + 1]
Base == Pow2(LimbBits)

FixZero == [j \in 1..NumLimbs |-> 0]
FixFromNat(n) == [j \in 1..NumLimbs |-> IF j = NumLimbs THEN n ELSE 0]

RECURSIVE FixAddFrom(_, _, _, _, _)
FixAddFrom(a, b, j, carry, acc) ==
    IF j > NumLimbs THEN acc
    ELSE LET total == a[j] + b[j] + carry IN
         FixAddFrom(a, b, j + 1, total \div Base, Append(acc, total % Base))
FixAdd(a, b) == FixAddFrom(a, b, 1, 0, <<>>)

RECURSIVE FixTimes10From(_, _, _, _)
FixTimes10From(a, j, carry, acc) ==
    IF j > NumLimbs THEN acc
    ELSE LET total == 10 * a[j] + carry IN
         FixTimes10From(a, j + 1, total \div Base, Append(acc, total % Base))
FixTimes10(a) == FixTimes10From(a, 1, 0, <<>>)

\* a / 10 by long division from the most significant limb: the quotient
\* truncated to the grid, and whether a remainder was left.
RECURSIVE FixDiv10From(_, _, _, _)
FixDiv10From(a, j, rem, acc) ==
    IF j = 0 THEN [q |-> acc, inexact |-> rem # 0]
    ELSE LET cur == rem * Base + a[j] IN
         FixDiv10From(a, j - 1, cur % 10, <<cur \div 10>> \o acc)
FixDiv10(a) == FixDiv10From(a, NumLimbs, 0, <<>>)

\* the number of significant bits of a limb, and of a number
LimbLength(v) == CHOOSE k \in 0..LimbBits : v < Pow2(k) /\ (k = 0 \/ Pow2(k - 1) <= v)
BitLength(a) ==
    IF \A j \in 1..NumLimbs : a[j] = 0 THEN 0
    ELSE LET top == CHOOSE j \in 1..NumLimbs :
                        a[j] # 0 /\ \A h \in (j + 1)..NumLimbs : a[h] = 0
         IN  (top - 1) * LimbBits + LimbLength(a[top])

\* bit i of a, the least significant bit being bit 1
BitAt(a, i) == (a[((i - 1) \div LimbBits) + 1] \div Pow2((i - 1) % LimbBits)) % 2
\* whether one of the k low bits of a is set
LowBitsSet(a, k) ==
    \E j \in 1..NumLimbs :
        \/ j <= k \div LimbBits /\ a[j] # 0
        \/ j = (k \div LimbBits) + 1 /\ a[j] % Pow2(k % LimbBits) # 0
ClearLowBits(a, k) ==
    [j \in 1..NumLimbs |->
        IF j <= k \div LimbBits THEN 0
        ELSE IF j = (k \div LimbBits) + 1 THEN a[j] - (a[j] % Pow2(k % LimbBits))
        ELSE a[j]]
FixUnitAt(i) ==
    [j \in 1..NumLimbs |->
        IF j = ((i - 1) \div LimbBits) + 1 THEN Pow2((i - 1) % LimbBits) ELSE 0]

\* Round to MantissaBits significant bits, to nearest, ties to even; inexact
\* says that the exact value lies strictly above a, below the grid's step.
RoundDouble(a, inexact) ==
    LET drop == BitLength(a) - MantissaBits IN
    IF drop <= 0 THEN a
    ELSE LET guard == BitAt(a, drop) = 1
             sticky == inexact \/ LowBitsSet(a, drop - 1)
             odd == BitAt(a, drop + 1) = 1
             kept == ClearLowBits(a, drop)
         IN  IF guard /\ (sticky \/ odd)
             THEN FixAdd(kept, FixUnitAt(drop + 1))
             ELSE kept

\* The double of the decimal literal tenths / 10, tenths >= 0.
DoubleOfTenths(tenths) ==
    LET d == FixDiv10(FixFromNat(tenths)) IN RoundDouble(d.q, d.inexact)

\* Math.floor(x), x >= 0
FixFloor(a) == a[NumLimbs]
\* x % 1, x >= 0: exact in double arithmetic
FixMod1(a) == [j \in 1..NumLimbs |-> IF j = NumLimbs THEN 0 ELSE a[j]]

DoubleAdd(a, b) == RoundDouble(FixAdd(a, b), FALSE)
DoubleTimes10(a) == RoundDouble(FixTimes10(a), FALSE)
IsInteger(a) == \A j \in 1..FracLimbs : a[j] = 0

\* (Math.floor(x) * 6) + (x % 1) * 10, for the double x = tenths / 10
BallsBowledOf(tenths) ==
    LET x == DoubleOfTenths(tenths) IN
    DoubleAdd(FixFromNat(FixFloor(x) * 6), DoubleTimes10(FixMod1(x)))

\* ------------------------------------------------------------ string helpers
IsUpper(c) == \E k \in 1..Len(UpperAlphabet) : UpperAlphabet[k] = c
ToLowerChar(c) ==
    IF IsUpper(c)
    THEN LowerAlphabet[CHOOSE k \in 1..Len(UpperAlphabet) : UpperAlphabet[k] = c]
    ELSE c
\* String.prototype.toLowerCase
ToLowerCase(cs) == [k \in 1..Len(cs) |-> ToLowerChar(cs[k])]
\* String.prototype.includes
Includes(cs, pat) ==
    \E k \in 0..(Len(cs) - Len(pat)) : SubSeq(cs, k + 1, k + Len(pat)) = pat
NotOutText == <<"n", "o", "t", " ", "o", "u", "t">>

\* ------------------------------------------------------------ the payload
(***************************************************************************)
(* req.body of POST /api/matches.  A list-valued property is a record      *)
(* [present, list]; innings is [kind, list] with kind "undefined" (the     *)
(* property is missing), "object" (present but no array) or "array".       *)
(* Player names are strings, compared with ===.                            *)
(***************************************************************************)
Absent == [present |-> FALSE, list |-> <<>>]
List(seq) == [present |-> TRUE, list |-> seq]
Team(nm, xi) == [name |-> nm, xi |-> xi]
Bat(nm, r, b, f, x, st) ==
    [name |-> nm, runs |-> r, balls |-> b, fours |-> f, sixes |-> x, status |-> st]
Bowl(nm, o, r, w) == [name |-> nm, overs |-> o, runs |-> r, wickets |-> w]
Innings(bat, bowl) == [batsmen |-> bat, bowlers |-> bowl]
InningsArray(seq) == [kind |-> "array", list |-> seq]
InningsMissing == [kind |-> "undefined", list |-> <<>>]
InningsObject == [kind |-> "object", list |-> <<>>]
NoMom == [present |-> FALSE, name |-> ""]
Mom(nm) == [present |-> TRUE, name |-> nm]
Body(tA, tB, ov, inn, mom) ==
    [teamA |-> tA, teamB |-> tB, overs |-> ov, innings |-> inn, manOfTheMatch |-> mom]

\* `|| {}`: every property of the empty object reads as undefined
EmptyBatting == Bat("", Undefined, Undefined, Undefined, Undefined, Undefined)
EmptyBowling == Bowl("", Undefined, Undefined, Undefined)

\* ------------------------------------------------------- the route's steps
\* the required-property test without its overs operand
MissingRequiredNoOvers(body) ==
    ~Truthy(body.teamA.name) \/ ~Truthy(body.teamB.name)

\* if (!teamA?.name || !teamB?.name || !overs) -> 400
MissingRequired(body) ==
    ~Truthy(body.teamA.name) \/ ~Truthy(body.teamB.name) \/ ~Truthy(body.overs)
\* if (!innings || !Array.isArray(innings) || innings.length === 0) -> 400
InvalidInnings(body) ==
    body.innings.kind # "array" \/ Len(body.innings.list) = 0
Rejected(body) == MissingRequired(body) \/ InvalidInnings(body)

\* new Set(), then teamA.xi.forEach(add), teamB.xi.forEach(add): the names in
\* insertion order, each once
RECURSIVE AddAll(_, _)
AddAll(acc, names) ==
    IF names = <<>> THEN acc
    ELSE AddAll(IF \E k \in 1..Len(acc) : acc[k] = Head(names)
                THEN acc ELSE Append(acc, Head(names)),
                Tail(names))
AllPlayerNames(body) == AddAll(AddAll(<<>>, body.teamA.xi.list), body.teamB.xi.list)

\* flatMap(i => i.batsmen): a missing list contributes one undefined element
RECURSIVE Flatten(_)
Flatten(cells) ==
    IF cells = <<>> THEN <<>>
    ELSE (IF Head(cells).present
          THEN [k \in 1..Len(Head(cells).list) |->
                    [undef |-> FALSE, e |-> Head(cells).list[k]]]
          ELSE <<[undef |-> TRUE, e |-> Undefined]>>)
         \o Flatten(Tail(cells))
FlatBatsmen(body) ==
    Flatten([k \in 1..Len(body.innings.list) |-> body.innings.list[k].batsmen])
FlatBowlers(body) ==
    Flatten([k \in 1..Len(body.innings.list) |-> body.innings.list[k].bowlers])

\* find(b => b.name === playerName): the index of the first element with the
\* name, 0 when there is none; reading .name of an undefined element throws
FindHits(flat, nm) ==
    {k \in 1..Len(flat) : flat[k].undef \/ flat[k].e.name = nm}
\* findLast in place of find
LastHit(flat, nm) ==
    CHOOSE k \in FindHits(flat, nm) : \A h \in FindHits(flat, nm) : k >= h
FirstHit(flat, nm) ==
    CHOOSE k \in FindHits(flat, nm) : \A h \in FindHits(flat, nm) : k <= h
FindThrows(flat, nm) ==
    FindHits(flat, nm) # {} /\ flat[FirstHit(flat, nm)].undef
FindIndex(flat, nm) ==
    IF FindHits(flat, nm) = {} THEN 0 ELSE FirstHit(flat, nm)

BattingStats(body, nm) ==
    LET flat == FlatBatsmen(body)
        k == FindIndex(flat, nm)
    IN  IF k = 0 THEN EmptyBatting ELSE flat[k].e
BowlingStats(body, nm) ==
    LET flat == FlatBowlers(body)
        k == FindIndex(flat, nm)
    IN  IF k = 0 THEN EmptyBowling ELSE flat[k].e

\* the status test without toLowerCase
IsOutCaseSensitive(status) ==
    IF Truthy(status) THEN ~Includes(status.s, NotOutText) ELSE FALSE

\* status ? !status.toLowerCase().includes('not out') : false
StatusThrows(status) == Truthy(status) /\ status.t # "string"
IsOut(status) ==
    IF Truthy(status) THEN ~Includes(ToLowerCase(status.s), NotOutText) ELSE FALSE

\* runs === 0
StrictlyZero(v) == v.t = "number" /\ v.n = 0

\* Number(v) || 0 of a sub-field that holds whole numbers
IncOf(v) == NumberOrZero(v).tenths \div 10

\* the award without the comparison of names
MomAwardAnyPlayer(body, nm) ==
    IF body.manOfTheMatch.present THEN 1 ELSE 0

\* (matchData.manOfTheMatch?.name === playerName) ? 1 : 0
MomAward(body, nm) ==
    IF body.manOfTheMatch.present /\ body.manOfTheMatch.name = nm THEN 1 ELSE 0

\* (battingStats.runs === 0 && isOut) ? 1 : 0
Duck(battingStats) ==
    IF StrictlyZero(battingStats.runs) /\ IsOut(battingStats.status) THEN 1 ELSE 0

\* the $inc document of one player
PlayerInc(body, nm) ==
    LET battingStats == BattingStats(body, nm)
        bowlingStats == BowlingStats(body, nm)
    IN  [matchesPlayed |-> 1,
         totalRuns |-> IncOf(battingStats.runs),
         ballsFaced |-> IncOf(battingStats.balls),
         fours |-> IncOf(battingStats.fours),
         sixes |-> IncOf(battingStats.sixes),
         ducks |-> Duck(battingStats),
         totalWickets |-> IncOf(bowlingStats.wickets),
         runsConceded |-> IncOf(bowlingStats.runs),
         ballsBowled |-> BallsBowledOf(NumberOrZero(bowlingStats.overs).tenths),
         manOfTheMatchAwards |-> MomAward(body, nm)]

\* Player.findOneAndUpdate({ name }, { $inc }, { upsert: true })
PlayerUpdate(body, nm) == [name |-> nm, inc |-> PlayerInc(body, nm)]

\* a TypeError in the synchronous part, caught by the route's catch
PlayerThrows(body, nm) ==
    IF FindThrows(FlatBatsmen(body), nm) THEN TRUE
    ELSE IF FindThrows(FlatBowlers(body), nm) THEN TRUE
    ELSE StatusThrows(BattingStats(body, nm).status)
ComputeThrows(body) ==
    IF ~body.teamA.xi.present \/ ~body.teamB.xi.present THEN TRUE
    ELSE \E k \in 1..Len(AllPlayerNames(body)) : PlayerThrows(body, AllPlayerNames(body)[k])

\* playerUpdatePromises: one query per element of the set, in its order
PlayerUpdates(body) ==
    LET names == AllPlayerNames(body) IN
    [k \in 1..Len(names) |-> PlayerUpdate(body, names[k])]

\* ------------------------------------------------------------ the stores
\* a and b are fielded; z and A are named only in innings lists or as man of
\* the match
XiNames == {"a", "b"}
PlayerNames == XiNames \cup {"z", "A"}
Requests == 1..MaxReq

Created == 201
BadRequest == 400
ServerError == 500

ZeroStats ==
    [matchesPlayed |-> 0, totalRuns |-> 0, ballsFaced |-> 0, fours |-> 0,
     sixes |-> 0, ducks |-> 0, totalWickets |-> 0, runsConceded |-> 0,
     ballsBowled |-> FixZero, manOfTheMatchAwards |-> 0]
NoPlayer == [exists |-> FALSE, stats |-> ZeroStats]

\* $inc: every field is added to; ballsBowled is a double that need not be whole
AddStats(st, inc) ==
    [matchesPlayed |-> st.matchesPlayed + inc.matchesPlayed,
     totalRuns |-> st.totalRuns + inc.totalRuns,
     ballsFaced |-> st.ballsFaced + inc.ballsFaced,
     fours |-> st.fours + inc.fours,
     sixes |-> st.sixes + inc.sixes,
     ducks |-> st.ducks + inc.ducks,
     totalWickets |-> st.totalWickets + inc.totalWickets,
     runsConceded |-> st.runsConceded + inc.runsConceded,
     ballsBowled |-> DoubleAdd(st.ballsBowled, inc.ballsBowled),
     manOfTheMatchAwards |-> st.manOfTheMatchAwards + inc.manOfTheMatchAwards]

\* a write of the increments over the defaults, in place of $inc on the
\* stored values
UpsertOverwrite(store, upd) ==
    [store EXCEPT ![upd.name] =
        [exists |-> TRUE, stats |-> AddStats(ZeroStats, upd.inc)]]

\* findOneAndUpdate with upsert and setDefaultsOnInsert: one atomic step
Upsert(store, upd) ==
    [store EXCEPT ![upd.name] =
        [exists |-> TRUE, stats |-> AddStats(store[upd.name].stats, upd.inc)]]

NoBody ==
    Body(Team(Undefined, Absent), Team(Undefined, Absent), Undefined,
         InningsMissing, NoMom)
NoMatch == [saved |-> FALSE, players |-> <<>>]
Idle == [pc |-> "idle", body |-> NoBody, issued |-> <<>>, settle |-> <<>>, status |-> 0]

VARIABLES players, matches, req
matchVars == <<players, matches, req>>

\* POST /api/availability: the Availability collection, one document at most
\* per request, and the requests
Posts == 1..MaxPosts
Conflict == 409
NoSlot ==
    [stored |-> FALSE, username |-> Undefined, date |-> Undefined,
     timeFrom |-> Undefined, timeTo |-> Undefined]
NoSlotBody ==
    [username |-> Undefined, phoneNumber |-> Undefined, date |-> Undefined,
     timeFrom |-> Undefined, timeTo |-> Undefined, preferredVenue |-> Undefined,
     gameType |-> Undefined]
IdlePost == [pc |-> "idle", body |-> NoSlotBody, status |-> 0]

VARIABLES slots, post
availVars == <<slots, post>>
InitAvailability ==
    /\ slots = [p \in Posts |-> NoSlot]
    /\ post = [p \in Posts |-> IdlePost]

\* the friend-request routes, the WhatsApp webhook and POST
\* /api/match-requests: the Friend collection (one document at most per
\* call, all of one sender and one receiver), the two users' friends lists,
\* the MatchRequest collection and the calls
Calls == 1..MaxCalls
NoFriend == [exists |-> FALSE, status |-> "", whatsappMessageId |-> 0]
IdleCall ==
    [route |-> "", pc |-> "idle", target |-> 0, accept |-> FALSE, sent |-> "none",
     status |-> 0]

VARIABLES friendDocs, friends, matchRequests, call
socialVars == <<friendDocs, friends, matchRequests, call>>
InitSocial ==
    /\ friendDocs = [c \in Calls |-> NoFriend]
    /\ friends = [sender |-> FALSE, receiver |-> FALSE]
    /\ matchRequests = [c \in Calls |-> FALSE]
    /\ call = [c \in Calls |-> IdleCall]

\* the two register routes: the User collection (one document at most per
\* call) and the calls
Regs == 1..MaxRegs
NoUser == [stored |-> FALSE, username |-> Undefined, email |-> Undefined, phoneNumber |-> Undefined]
IdleReg == [route |-> "", pc |-> "idle", body |-> NoUser, status |-> 0]

VARIABLES users, reg
userVars == <<users, reg>>
InitUsers ==
    /\ users = [c \in Regs |-> NoUser]
    /\ reg = [c \in Regs |-> IdleReg]

\* POST /api/match-requests/bulk: the pending requests each call has stored
\* (their receiver phones, in the order of the saves; all of one sender and
\* one date) and the calls with their 'requests' and 'errors' arrays
Bulks == 1..MaxBulk
IdleBulk ==
    [pc |-> "idle", receiverPhones |-> <<>>, k |-> 1, requests |-> <<>>, errors |-> <<>>,
     status |-> 0]

VARIABLES pendingRequests, bulk
bulkVars == <<pendingRequests, bulk>>
InitBulk ==
    /\ pendingRequests = [c \in Bulks |-> <<>>]
    /\ bulk = [c \in Bulks |-> IdleBulk]

\* the socket server: the users with an open socket, the connectedUsers map
\* (userId -> socket.id, 0 for no entry) and the events handled so far
SocketUsers == {"u1", "u2"}
VARIABLES sockets, connectedUsers, handled
socketVars == <<sockets, connectedUsers, handled>>
InitSockets ==
    /\ sockets = {}
    /\ connectedUsers = [u \in SocketUsers |-> 0]
    /\ handled = <<>>

\* the database connection: the connectDB invocations (the first one is
\* started when the module is loaded), the state of the mongoose connection
\* and whether the process has exited
Loops == 1..MaxLoops
VARIABLES loops, connection, exited
dbVars == <<loops, connection, exited>>
InitDB ==
    /\ loops = [l \in Loops |-> IF l = 1 THEN [pc |-> "attempt", i |-> 0]
                                         ELSE [pc |-> "none", i |-> 0]]
    /\ connection = "disconnected"
    /\ exited = FALSE

\* what the match routes leave alone
otherRoutes == <<availVars, socialVars, userVars, bulkVars, socketVars, dbVars>>
\* what the availability route leaves alone
beyondAvailability == <<matchVars, socialVars, userVars, bulkVars, socketVars, dbVars>>
\* what the friend-request routes, the webhook and the match requests leave
\* alone
beyondSocial == <<matchVars, availVars, userVars, bulkVars, socketVars, dbVars>>
\* what the register routes leave alone
beyondUsers == <<matchVars, availVars, socialVars, bulkVars, socketVars, dbVars>>
\* what the bulk route leaves alone
beyondBulk == <<matchVars, availVars, socialVars, userVars, socketVars, dbVars>>
\* what the socket handlers leave alone
beyondSockets == <<matchVars, availVars, socialVars, userVars, bulkVars, dbVars>>
\* what connectDB leaves alone
beyondDB == <<matchVars, availVars, socialVars, userVars, bulkVars, socketVars>>
vars == <<matchVars, availVars, socialVars, userVars, bulkVars, socketVars, dbVars>>

Init ==
    /\ players = [nm \in PlayerNames |-> NoPlayer]
    /\ matches = [r \in Requests |-> NoMatch]
    /\ req = [r \in Requests |-> Idle]
    /\ InitAvailability
    /\ InitSocial
    /\ InitUsers
    /\ InitBulk
    /\ InitSockets
    /\ InitDB

Respond(r, body, code) ==
    req' = [req EXCEPT ![r] =
        [pc |-> "responded", body |-> body, issued |-> <<>>, settle |-> <<>>,
         status |-> code]]

\* lines 227-232: a validation failure answers 400 before anything else
RejectMatch(r, bodies) ==
    /\ req[r].pc = "idle"
    /\ \E body \in bodies :
          /\ Rejected(body)
          /\ Respond(r, body, BadRequest)
    /\ UNCHANGED <<players, matches, otherRoutes>>

\* lines 234-257, 289-297: a TypeError while the updates are built is caught
\* and answered 500; no query has been executed
ThrowMatch(r, bodies) ==
    /\ req[r].pc = "idle"
    /\ \E body \in bodies :
          /\ ~Rejected(body)
          /\ ComputeThrows(body)
          /\ Respond(r, body, ServerError)
    /\ UNCHANGED <<players, matches, otherRoutes>>

\* the updates built with a look at the store: a player who has a record is
\* not counted another match
IssueUpdatesBySeen(r, bodies) ==
    /\ req[r].pc = "idle"
    /\ \E body \in bodies :
          /\ ~Rejected(body)
          /\ ~ComputeThrows(body)
          /\ req' = [req EXCEPT ![r] =
                  [pc |-> "updating", body |-> body,
                   issued |-> [k \in 1..Len(PlayerUpdates(body)) |->
                                  IF players[PlayerUpdates(body)[k].name].exists
                                  THEN [PlayerUpdates(body)[k] EXCEPT !.inc.matchesPlayed = 0]
                                  ELSE PlayerUpdates(body)[k]],
                   settle |-> [k \in 1..Len(PlayerUpdates(body)) |-> "pending"],
                   status |-> 0]]
    /\ UNCHANGED <<players, matches, otherRoutes>>

\* lines 234-266: the updates are built and handed to Promise.all
IssueUpdates(r, bodies) ==
    /\ req[r].pc = "idle"
    /\ \E body \in bodies :
          /\ ~Rejected(body)
          /\ ~ComputeThrows(body)
          /\ req' = [req EXCEPT ![r] =
                  [pc |-> "updating", body |-> body, issued |-> PlayerUpdates(body),
                   settle |-> [k \in 1..Len(PlayerUpdates(body)) |-> "pending"],
                   status |-> 0]]
    /\ UNCHANGED <<players, matches, otherRoutes>>

\* router.post('/'), up to its first await
PostMatch(r, bodies) ==
    \/ RejectMatch(r, bodies)
    \/ ThrowMatch(r, bodies)
    \/ IssueUpdates(r, bodies)

\* the database executes one of the request's upserts
ApplyUpdate(r, k) ==
    /\ req[r].settle[k] = "pending"
    /\ players' = Upsert(players, req[r].issued[k])
    /\ req' = [req EXCEPT ![r].settle[k] = "applied"]
    /\ UNCHANGED <<matches, otherRoutes>>

\* Promise.allSettled in place of Promise.all: a rejected upsert is recorded
\* and the request goes on waiting
FailUpdateSettled(r, k) ==
    /\ req[r].settle[k] = "pending"
    /\ req' = [req EXCEPT ![r].settle[k] = "failed"]
    /\ UNCHANGED <<players, matches, otherRoutes>>

\* one upsert is rejected by the database: Promise.all rejects at the first
\* rejection and the catch answers 500; the other queries keep running
FailUpdate(r, k) ==
    /\ req[r].settle[k] = "pending"
    /\ req' = [req EXCEPT ![r].settle[k] = "failed",
                          ![r].pc = "responded",
                          ![r].status = IF req[r].pc = "updating"
                                        THEN ServerError ELSE req[r].status]
    /\ UNCHANGED <<players, matches, otherRoutes>>

\* the write waits only for no rejection so far, not for every upsert
NoneFailed(r) == \A k \in 1..Len(req[r].settle) : req[r].settle[k] # "failed"
AllApplied(r) == \A k \in 1..Len(req[r].settle) : req[r].settle[k] = "applied"

\* lines 267-287: the match is written with the ids of the updated players
SaveMatch(r) ==
    /\ req[r].pc = "updating"
    /\ AllApplied(r)
    /\ matches' = [matches EXCEPT ![r] =
            [saved |-> TRUE,
             players |-> [k \in 1..Len(req[r].issued) |-> req[r].issued[k].name]]]
    /\ req' = [req EXCEPT ![r].pc = "responded", ![r].status = Created]
    /\ UNCHANGED <<players, otherRoutes>>

\* newMatch.save() is rejected by the database
FailSave(r) ==
    /\ req[r].pc = "updating"
    /\ AllApplied(r)
    /\ req' = [req EXCEPT ![r].pc = "responded", ![r].status = ServerError]
    /\ UNCHANGED <<players, matches, otherRoutes>>

Database(r) ==
    \/ \E k \in 1..Len(req[r].settle) : ApplyUpdate(r, k)
    \/ \E k \in 1..Len(req[r].settle) : FailUpdate(r, k)
    \/ SaveMatch(r)
    \/ FailSave(r)

\* ------------------------------------------------------------ the inputs
(***************************************************************************)
(* The bodies the model posts.  Whole-number sub-fields are given whole    *)
(* literals (possibly negative) or values that are no numbers; overs are   *)
(* given non-negative literals with one fractional digit.                  *)
(***************************************************************************)
TextOut == Str(<<"o", "u", "t">>)
TextNotOut == Str(<<"n", "o", "t", " ", "o", "u", "t">>)
TeamName == Str(<<"X", "I">>)

NumVals ==
    {Undefined, Null, Obj, Bool(TRUE), Bool(FALSE),
     Int10(0), Int10(1), Int10(7), Int10(0 - 1),
     Str(<<>>), Str(<<"0">>), Str(<<"1", "2">>), Str(<<" ", "7", " ">>), Str(<<"a", "b", "c">>)}
StatusVals ==
    {Undefined, Str(<<>>), TextOut, TextNotOut, Str(<<"N", "o", "t", " ", "O", "u", "t">>), Str(<<"N", "O", "T", " ", "O", "U", "T">>),
     Str(<<"*", "n", "o", "t", " ", "o", "u", "t", "*">>), Str(<<"n", "o", "t", "o", "u", "t">>), Str(<<"n", "o", "t", " ", " ", "o", "u", "t">>), Str(<<"b", "o", "w", "l", "e", "d">>),
     Int10(0), Int10(1)}
OversVals ==
    {Num(t) : t \in 0..(10 * MaxOvers + 9)}
        \cup {Undefined, Null, Bool(TRUE), Str(<<"4", ".", "3">>), Str(<<"a", "b", "c">>), Obj}

RECURSIVE SeqsUpTo(_, _)
SeqsUpTo(S, n) ==
    IF n = 0 THEN {<<>>}
    ELSE LET shorter == SeqsUpTo(S, n - 1) IN
         shorter \cup {Append(q, x) : q \in shorter, x \in S}

XiVals == {Absent} \cup {List(q) : q \in SeqsUpTo(XiNames, MaxXi)}
MomVals == {NoMom, Mom("a"), Mom("b"), Mom("A"), Mom("z")}

\* a batted 5 not out, z (in no eleven) batted and bowled, b bowled 1.1 overs
StdInnings ==
    Innings(List(<<Bat("a", Int10(5), Int10(6), Int10(1), Int10(0), TextNotOut),
                   Bat("z", Int10(3), Int10(4), Int10(0), Int10(0), TextOut)>>),
            List(<<Bowl("b", Num(11), Int10(8), Int10(1)),
                   Bowl("z", Num(20), Int10(9), Int10(2))>>))
StdTeamA == Team(TeamName, List(<<"a">>))
StdTeamB == Team(TeamName, List(<<"b">>))
StdOvers == Int10(20)

\* the elevens and the man of the match vary
TeamBodies ==
    {Body(Team(TeamName, xa), Team(TeamName, xb), StdOvers,
          InningsArray(<<StdInnings>>), mom) :
        xa \in XiVals, xb \in XiVals, mom \in MomVals}

\* the sub-fields of a's batting entry vary
BattingBodies ==
    {Body(StdTeamA, StdTeamB, StdOvers,
          InningsArray(<<Innings(List(<<Bat("a", r, b, f, Int10(2), st)>>), List(<<>>))>>),
          Mom("a")) :
        r \in NumVals, b \in {Int10(3), Undefined, Str(<<"a", "b", "c">>)},
        f \in {Int10(1), Bool(TRUE)}, st \in StatusVals}

\* the sub-fields of a's bowling entry vary
BowlingBodies ==
    {Body(StdTeamA, StdTeamB, StdOvers,
          InningsArray(<<Innings(List(<<>>), List(<<Bowl("a", o, r, w)>>))>>),
          NoMom) :
        o \in OversVals, r \in {Int10(9), Undefined, Int10(0 - 2)},
        w \in {Int10(2), Str(<<"a", "b", "c">>), Bool(TRUE)}}

\* the lists of one innings vary: entries repeat a name
BatEntries ==
    {Bat(nm, Int10(r), Int10(r + 1), Int10(r + 2), Int10(r + 3),
         IF r = 0 THEN TextOut ELSE TextNotOut) : nm \in {"a", "b"}, r \in {0, 4}}
BowlEntries == {Bowl(nm, Num(o), Int10(o), Int10(o + 1)) : nm \in {"a", "b"}, o \in {10, 23}}
EntryBodies ==
    {Body(StdTeamA, StdTeamB, StdOvers, InningsArray(<<Innings(List(bl), List(wl))>>),
          NoMom) :
        bl \in SeqsUpTo(BatEntries, MaxEntries), wl \in SeqsUpTo(BowlEntries, MaxEntries)}

\* the innings vary: lists are missing, empty or hold one entry for a
InningsVals ==
    {Innings(bl, wl) :
        bl \in {Absent, List(<<>>)} \cup {List(<<e>>) : e \in {x \in BatEntries : x.name = "a"}},
        wl \in {Absent, List(<<>>)} \cup {List(<<e>>) : e \in {x \in BowlEntries : x.name = "a"}}}
InningsBodies ==
    {Body(StdTeamA, StdTeamB, StdOvers, InningsArray(q), NoMom) :
        q \in SeqsUpTo(InningsVals, MaxInnings) \ {<<>>}}

\* the validated properties vary
ValidationBodies ==
    {Body(Team(na, List(<<"a">>)), Team(nb, List(<<"b">>)), ov, inn, NoMom) :
        na \in {TeamName, Str(<<>>), Undefined},
        nb \in {TeamName, Str(<<>>), Undefined},
        ov \in {StdOvers, Int10(0), Undefined, Str(<<"2", "0">>)},
        inn \in {InningsMissing, InningsObject, InningsArray(<<>>),
                 InningsArray(<<StdInnings>>)}}

AggregateBodies ==
    TeamBodies \cup BattingBodies \cup BowlingBodies \cup EntryBodies
        \cup InningsBodies \cup ValidationBodies

\* the bodies of the concurrent specification
ServerBodies ==
    {Body(StdTeamA, StdTeamB, StdOvers, InningsArray(<<StdInnings>>), Mom("a")),
     Body(Team(TeamName, List(<<"a", "b">>)), Team(TeamName, List(<<"a">>)), StdOvers,
          InningsArray(<<Innings(List(<<Bat("a", Int10(0), Int10(1), Int10(0), Int10(0), TextOut)>>),
                                 List(<<>>))>>),
          NoMom),
     Body(StdTeamA, StdTeamB, Undefined, InningsArray(<<StdInnings>>), NoMom),
     Body(Team(Undefined, List(<<"a">>)), StdTeamB, StdOvers, InningsArray(<<StdInnings>>), NoMom),
     Body(StdTeamA, Team(Undefined, List(<<"b">>)), StdOvers, InningsArray(<<StdInnings>>), NoMom),
     Body(StdTeamA, StdTeamB, StdOvers, InningsMissing, NoMom),
     Body(StdTeamA, StdTeamB, StdOvers, InningsObject, NoMom),
     Body(StdTeamA, StdTeamB, StdOvers, InningsArray(<<>>), NoMom),
     Body(StdTeamA, StdTeamB, StdOvers, InningsArray(<<Innings(Absent, Absent)>>), NoMom)}

\* ------------------------------------------------------ the specifications
\* concurrent match saves
Next == \E r \in Requests : PostMatch(r, ServerBodies) \/ Database(r)
Spec == Init /\ [][Next]_vars

\* one match save, over the wide set of bodies
NextAggregate == PostMatch(1, AggregateBodies) \/ Database(1)
SpecAggregate == Init /\ [][NextAggregate]_vars

\* ------------------------------------------------- POST /api/availability
(***************************************************************************)
(* src/availability.js, lines 55-213.  The fields of the body are JSON     *)
(* values; a date is [t |-> "date", n |-> d], a text that new Date parses  *)
(* to a moment of the local calendar day d counted from today, and any     *)
(* other text is one that new Date cannot parse.  Times are texts.         *)
(***************************************************************************)
DateOn(d) == [t |-> "date", n |-> d, s |-> <<>>]
CreatedSlot == 201
BadSlot == 400
SlotError == 500

\* validGameTypes
validGameTypes ==
    {<<"C", "r", "i", "c", "k", "e", "t">>, <<"F", "o", "o", "t", "b", "a", "l", "l">>,
     <<"T", "e", "n", "n", "i", "s">>, <<"H", "a", "n", "d", "b", "a", "l", "l">>,
     <<"K", "a", "b", "a", "d", "d", "i">>}

\* !value of a field that is a text, a date or missing
FieldMissing(v) == v.t = "undefined" \/ (v.t = "string" /\ v.s = <<>>)

\* /^\d{10}$/
TenDigits(cs) == Len(cs) = 10 /\ AllDigits(cs)

\* /^([01]?[0-9]|2[0-3]):[0-5][0-9]$/
timeRegex(cs) ==
    LET n == Len(cs) IN
    /\ n \in {4, 5}
    /\ cs[n - 2] = ":"
    /\ cs[n - 1] \in {"0", "1", "2", "3", "4", "5"}
    /\ IsDigit(cs[n])
    /\ IF n = 4 THEN IsDigit(cs[1])
       ELSE \/ cs[1] \in {"0", "1"} /\ IsDigit(cs[2])
            \/ cs[1] = "2" /\ cs[2] \in {"0", "1", "2", "3"}

\* time.split(':').map(Number), hours * 60 + minutes; of a text timeRegex accepts
convertTimeToMinutes(cs) ==
    LET n == Len(cs) IN
    DigitsValue(SubSeq(cs, 1, n - 3)) * 60 + DigitsValue(SubSeq(cs, n - 1, n))

\* lines 61-116: the tests before the times are compared, in their order
FieldsRejected(body) ==
    \/ FieldMissing(body.username) \/ FieldMissing(body.phoneNumber)
    \/ FieldMissing(body.date) \/ FieldMissing(body.timeFrom)
    \/ FieldMissing(body.timeTo) \/ FieldMissing(body.preferredVenue)
    \/ FieldMissing(body.gameType)
    \/ body.gameType.s \notin validGameTypes
    \/ ~TenDigits(body.phoneNumber.s)
    \/ Len(body.username.s) < 3
    \/ Len(body.preferredVenue.s) < 2
    \/ body.date.t # "date"
    \/ body.date.n < 0
    \/ ~timeRegex(body.timeFrom.s)
    \/ ~timeRegex(body.timeTo.s)

newSlotStart(body) == convertTimeToMinutes(body.timeFrom.s)
newSlotEnd(body) == convertTimeToMinutes(body.timeTo.s)
startHour(body) == newSlotStart(body) \div 60

\* lines 128-141: time range, minimum duration, business hours
TimesRejected(body) ==
    \/ newSlotStart(body) >= newSlotEnd(body)
    \/ newSlotEnd(body) - newSlotStart(body) < 30
    \/ startHour(body) < 6
    \/ startHour(body) >= 22

SlotRejected(body) ==
    IF FieldsRejected(body) THEN TRUE ELSE TimesRejected(body)

\* Availability.find({ username, date: { $gte: searchDate, $lt: nextDay } })
existingSlots(body) ==
    {p \in Posts : /\ slots[p].stored
                   /\ slots[p].username = body.username
                   /\ slots[p].date.n = body.date.n}

\* existingSlots.some(...)
hasConflict(body) ==
    \E p \in existingSlots(body) :
        /\ newSlotStart(body) < convertTimeToMinutes(slots[p].timeTo.s)
        /\ newSlotEnd(body) > convertTimeToMinutes(slots[p].timeFrom.s)

AnswerPost(p, body, code) ==
    post' = [post EXCEPT ![p] = [pc |-> "responded", body |-> body, status |-> code]]

\* lines 61-141: a validation failure answers 400
RejectSlot(p, bodies) ==
    /\ post[p].pc = "idle"
    /\ \E body \in bodies :
          /\ SlotRejected(body)
          /\ AnswerPost(p, body, BadSlot)
    /\ UNCHANGED <<slots, beyondAvailability>>

\* lines 150-169: the find runs and one of the slots it returns overlaps
ConflictSlot(p, bodies) ==
    /\ post[p].pc = "idle"
    /\ \E body \in bodies :
          /\ ~SlotRejected(body)
          /\ hasConflict(body)
          /\ AnswerPost(p, body, Conflict)
    /\ UNCHANGED <<slots, beyondAvailability>>

\* lines 150-184: the find runs and returns no overlapping slot; the handler
\* goes on to availability.save()
FindFree(p, bodies) ==
    /\ post[p].pc = "idle"
    /\ \E body \in bodies :
          /\ ~SlotRejected(body)
          /\ ~hasConflict(body)
          /\ post' = [post EXCEPT ![p] = [pc |-> "saving", body |-> body, status |-> 0]]
    /\ UNCHANGED <<slots, beyondAvailability>>

\* lines 184-187: the document is inserted and the request answered 201
SaveSlot(p) ==
    /\ post[p].pc = "saving"
    /\ slots' = [slots EXCEPT ![p] =
            [stored |-> TRUE, username |-> post[p].body.username,
             date |-> post[p].body.date, timeFrom |-> post[p].body.timeFrom,
             timeTo |-> post[p].body.timeTo]]
    /\ post' = [post EXCEPT ![p].pc = "responded", ![p].status = CreatedSlot]
    /\ UNCHANGED beyondAvailability

\* lines 188-212: the insert is rejected by the database
FailSlot(p) ==
    /\ post[p].pc = "saving"
    /\ post' = [post EXCEPT ![p].pc = "responded", ![p].status = SlotError]
    /\ UNCHANGED <<slots, beyondAvailability>>

\* router.post('/') of the availability routes
PostAvailability(p, bodies) ==
    \/ RejectSlot(p, bodies)
    \/ ConflictSlot(p, bodies)
    \/ FindFree(p, bodies)
    \/ SaveSlot(p)
    \/ FailSlot(p)

\* the bodies posted
UserAnn == Str(<<"a", "n", "n">>)
UserBob == Str(<<"b", "o", "b">>)
GoodPhone == Str(<<"9", "8", "7", "6", "5", "4", "3", "2", "1", "0">>)
GoodVenue == Str(<<"p", "a", "r", "k">>)
Cricket == Str(<<"C", "r", "i", "c", "k", "e", "t">>)
SlotBody(u, ph, d, tf, tt, v, g) ==
    [username |-> u, phoneNumber |-> ph, date |-> d, timeFrom |-> tf, timeTo |-> tt,
     preferredVenue |-> v, gameType |-> g]

TimeVals ==
    {Str(<<"0", "5", ":", "3", "0">>), Str(<<"6", ":", "0", "0">>),
     Str(<<"0", "6", ":", "2", "0">>), Str(<<"0", "6", ":", "3", "0">>),
     Str(<<"0", "7", ":", "0", "0">>), Str(<<"2", "1", ":", "3", "0">>),
     Str(<<"2", "2", ":", "0", "0">>), Str(<<"2", "3", ":", "0", "0">>),
     Str(<<"2", "4", ":", "0", "0">>), Str(<<"0", "6", ":", "6", "0">>),
     Str(<<"a", "b", "c">>), Undefined}

\* the times vary
TimeBodies ==
    {SlotBody(UserAnn, GoodPhone, DateOn(0), tf, tt, GoodVenue, Cricket) :
        tf \in TimeVals, tt \in TimeVals}

\* the user and the day vary
DayBodies ==
    {SlotBody(u, GoodPhone, d, Str(<<"0", "6", ":", "0", "0">>), tt, GoodVenue, Cricket) :
        u \in {UserAnn, UserBob}, d \in {DateOn(0 - 1), DateOn(0), DateOn(1)},
        tt \in {Str(<<"0", "7", ":", "0", "0">>), Str(<<"0", "6", ":", "3", "0">>)}}

\* the other fields vary, one at a time
SixToSeven(u, ph, d, v, g) ==
    SlotBody(u, ph, d, Str(<<"0", "6", ":", "0", "0">>), Str(<<"0", "7", ":", "0", "0">>), v, g)
FieldBodies ==
    {SixToSeven(u, GoodPhone, DateOn(0), GoodVenue, Cricket) :
        u \in {Str(<<"a", "n">>), Undefined}}
    \cup {SixToSeven(UserAnn, ph, DateOn(0), GoodVenue, Cricket) :
        ph \in {Str(<<"9", "8", "7">>), Undefined}}
    \cup {SixToSeven(UserAnn, GoodPhone, d, GoodVenue, Cricket) :
        d \in {Str(<<"x">>), Undefined}}
    \cup {SixToSeven(UserAnn, GoodPhone, DateOn(0), v, Cricket) :
        v \in {Str(<<"p">>), Undefined}}
    \cup {SixToSeven(UserAnn, GoodPhone, DateOn(0), GoodVenue, g) :
        g \in {Str(<<"c", "r", "i", "c", "k", "e", "t">>), Undefined}}

SlotBodies == TimeBodies \cup DayBodies \cup FieldBodies

\* concurrent requests to POST /api/availability
NextAvailability == \E p \in Posts : PostAvailability(p, SlotBodies)
SpecAvailability == Init /\ [][NextAvailability]_vars

\* ------------------- friend requests, the WhatsApp webhook, match requests
(***************************************************************************)
(* src/unnamed/part_000 lines 81-194, src/server.js lines 181-255 and      *)
(* src/unnamed/part_002 lines 10-83.  Every await of a handler is one      *)
(* step.  A call's pc names the operation it waits for: "save" (the new    *)
(* document), "status" (the friend request with its new status),           *)
(* "addSender" and "addReceiver" (the two $addToSet updates), "send" (the  *)
(* WhatsApp message), "storeSid" (the document with the message id).       *)
(***************************************************************************)
Ok == 200
CreatedRequest == 201
BadInput == 400
NotFound == 404
Failed == 500

TextAccept == <<"a", "c", "c", "e", "p", "t">>
TextYes == <<"y", "e", "s">>
TextNo == <<"n", "o">>

Finish(c, code) == call' = [call EXCEPT ![c].pc = "done", ![c].status = code]
Begin(c, route, target, accept, pc) ==
    call' = [call EXCEPT ![c] =
        [route |-> route, pc |-> pc, target |-> target, accept |-> accept,
         sent |-> "none", status |-> 0]]
Answer(c, route, code) ==
    call' = [call EXCEPT ![c] =
        [route |-> route, pc |-> "done", target |-> 0, accept |-> FALSE,
         sent |-> "none", status |-> code]]

\* part_000 lines 83-105: no receiver with the phone number -> 404; a request
\* of the sender to the receiver exists -> 400; otherwise the new request is
\* handed to save
ReceiveFriendRequest(c) ==
    /\ call[c].pc = "idle"
    /\ \E receiverFound \in BOOLEAN :
          IF ~receiverFound THEN Answer(c, "friendRequest", NotFound)
          ELSE IF \E d \in Calls : friendDocs[d].exists
               THEN Answer(c, "friendRequest", BadInput)
               ELSE Begin(c, "friendRequest", c, FALSE, "save")
    /\ UNCHANGED <<friendDocs, friends, matchRequests, beyondSocial>>

\* part_002 lines 26-49: a required field is missing or the date does not
\* parse -> 400; otherwise the new request is handed to save
ReceiveMatchRequest(c) ==
    /\ call[c].pc = "idle"
    /\ \E receiverPhone \in {GoodPhone, Undefined}, date \in {DateOn(1), Str(<<"x">>), Undefined} :
          IF FieldMissing(receiverPhone) \/ FieldMissing(date) \/ date.t # "date"
          THEN Answer(c, "matchRequest", BadInput)
          ELSE Begin(c, "matchRequest", c, FALSE, "save")
    /\ UNCHANGED <<friendDocs, friends, matchRequests, beyondSocial>>

\* part_000 lines 137-148: Friend.findById finds nothing -> 404; otherwise the
\* status is set from response === 'accept' and the request handed to save
ReceiveRespond(c) ==
    /\ call[c].pc = "idle"
    /\ \E requestId \in Calls, response \in {Str(TextAccept), Str(<<"r", "e", "j", "e", "c", "t">>), Undefined} :
          IF ~friendDocs[requestId].exists THEN Answer(c, "respond", NotFound)
          ELSE Begin(c, "respond", requestId, response = Str(TextAccept), "status")
    /\ UNCHANGED <<friendDocs, friends, matchRequests, beyondSocial>>

\* Friend.findOne({ whatsappMessageId: MessageSid }): message ids are the
\* numbers of the calls that sent them
FoundBySid(sid) == {d \in Calls : friendDocs[d].exists /\ friendDocs[d].whatsappMessageId = sid}

\* server.js lines 183-200, 228-231: Body.toLowerCase() throws without a
\* Body -> 500; no request with the message id -> 200; a reply other than
\* yes and no -> 200; otherwise the status is set and the request handed to
\* save
ReceiveWebhook(c) ==
    /\ call[c].pc = "idle"
    /\ \E MessageSid \in Calls, reply \in {Str(<<"Y", "e", "s">>), Str(TextNo), Str(<<"o", "k">>), Undefined} :
          IF reply.t # "string" THEN Answer(c, "webhook", Failed)
          ELSE IF FoundBySid(MessageSid) = {} THEN Answer(c, "webhook", Ok)
          ELSE IF ToLowerCase(reply.s) \notin {TextYes, TextNo} THEN Answer(c, "webhook", Ok)
          ELSE Begin(c, "webhook", CHOOSE d \in FoundBySid(MessageSid) : TRUE,
                     ToLowerCase(reply.s) = TextYes, "status")
    /\ UNCHANGED <<friendDocs, friends, matchRequests, beyondSocial>>

\* friendRequest.save() (part_000 line 107), newRequest.save() (part_002 line
\* 54): the document is inserted; the notification comes next
SaveNew(c) ==
    /\ call[c].pc = "save"
    /\ IF call[c].route = "friendRequest"
       THEN /\ friendDocs' = [friendDocs EXCEPT ![c] =
                    [exists |-> TRUE, status |-> "pending", whatsappMessageId |-> 0]]
            /\ UNCHANGED matchRequests
       ELSE /\ matchRequests' = [matchRequests EXCEPT ![c] = TRUE]
            /\ UNCHANGED friendDocs
    /\ call' = [call EXCEPT ![c].pc = "send"]
    /\ UNCHANGED <<friends, beyondSocial>>

\* friendRequest.save() with the new status (part_000 line 149, server.js
\* lines 200 and 231): on acceptance the friends lists come next, otherwise
\* the notification
SaveStatus(c) ==
    /\ call[c].pc = "status"
    /\ friendDocs' = [friendDocs EXCEPT ![call[c].target].status =
            IF call[c].accept THEN "accepted" ELSE "rejected"]
    /\ call' = [call EXCEPT ![c].pc = IF call[c].accept THEN "addSender" ELSE "send"]
    /\ UNCHANGED <<friends, matchRequests, beyondSocial>>

\* User.updateOne(sender, $addToSet friends receiver)
AddToSender(c) ==
    /\ call[c].pc = "addSender"
    /\ friends' = [friends EXCEPT !.sender = TRUE]
    /\ call' = [call EXCEPT ![c].pc = "addReceiver"]
    /\ UNCHANGED <<friendDocs, matchRequests, beyondSocial>>

\* User.updateOne(receiver, $addToSet friends sender)
AddToReceiver(c) ==
    /\ call[c].pc = "addReceiver"
    /\ friends' = [friends EXCEPT !.receiver = TRUE]
    /\ call' = [call EXCEPT ![c].pc = "send"]
    /\ UNCHANGED <<friendDocs, matchRequests, beyondSocial>>

\* a database operation of the call is rejected: the route's catch answers 500
FailDatabase(c) ==
    /\ call[c].pc \in {"save", "status", "addSender", "addReceiver"}
    /\ Finish(c, Failed)
    /\ UNCHANGED <<friendDocs, friends, matchRequests, beyondSocial>>

\* the status a route answers when nothing fails
SuccessOf(route) == IF route \in {"friendRequest", "matchRequest"} THEN CreatedRequest ELSE Ok

\* the routes other than the webhook send only with a WhatsApp number or a
\* Twilio client at hand
SkipSend(c) ==
    /\ call[c].pc = "send"
    /\ call[c].route # "webhook"
    /\ Finish(c, SuccessOf(call[c].route))
    /\ UNCHANGED <<friendDocs, friends, matchRequests, beyondSocial>>

\* client.messages.create resolves: the routes that created a document store
\* the message id next, the others answer
SendDelivered(c) ==
    /\ call[c].pc = "send"
    /\ call' = [call EXCEPT
                   ![c].sent = "ok",
                   ![c].pc = IF call[c].route \in {"friendRequest", "matchRequest"}
                             THEN "storeSid" ELSE "done",
                   ![c].status = IF call[c].route \in {"friendRequest", "matchRequest"}
                                 THEN 0 ELSE Ok]
    /\ UNCHANGED <<friendDocs, friends, matchRequests, beyondSocial>>

\* client.messages.create rejects: inside try/catch in the routes (part_000
\* lines 122, 170, 183; part_002 line 68), caught by the handler's outer
\* catch in the webhook (server.js lines 214, 234, 251-253)
SendFailed(c) ==
    /\ call[c].pc = "send"
    /\ call' = [call EXCEPT
                   ![c].sent = "failed",
                   ![c].pc = "done",
                   ![c].status = IF call[c].route = "webhook" THEN Failed
                                 ELSE SuccessOf(call[c].route)]
    /\ UNCHANGED <<friendDocs, friends, matchRequests, beyondSocial>>

\* whatsappMessageId = message.sid and the second save, inside the try: the
\* request is answered 201 whether the save succeeds or not
StoreSid(c) ==
    /\ call[c].pc = "storeSid"
    /\ \E saved \in BOOLEAN :
          friendDocs' = IF saved /\ call[c].route = "friendRequest"
                        THEN [friendDocs EXCEPT ![c].whatsappMessageId = c]
                        ELSE friendDocs
    /\ Finish(c, CreatedRequest)
    /\ UNCHANGED <<friends, matchRequests, beyondSocial>>

Social(c) ==
    \/ ReceiveFriendRequest(c)
    \/ ReceiveMatchRequest(c)
    \/ ReceiveRespond(c)
    \/ ReceiveWebhook(c)
    \/ SaveNew(c)
    \/ SaveStatus(c)
    \/ AddToSender(c)
    \/ AddToReceiver(c)
    \/ FailDatabase(c)
    \/ SkipSend(c)
    \/ SendDelivered(c)
    \/ SendFailed(c)
    \/ StoreSid(c)

\* concurrent calls of the friend-request routes, the webhook and the match
\* requests
NextSocial == \E c \in Calls : Social(c)
SpecSocial == Init /\ [][NextSocial]_vars

\* ------------------------------------------------------ the register routes
(***************************************************************************)
(* src/unnamed/part_001 lines 7-78 (POST /api/auth/register) and           *)
(* src/unnamed/part_000 lines 18-58 (POST /register of the users route).   *)
(* Both look a colliding user up (User.findOne with $or) and then save the *)
(* new one; the lookup and the save are two awaits.  The User schema is    *)
(* not among the source files: save inserts the document, or is rejected.  *)
(***************************************************************************)

\* /^[^\s@]+@[^\s@]+\.[^\s@]+$/: no blank, one @ that is not first, and a dot
\* after it with a character on either side
emailRegex(cs) ==
    /\ \A k \in 1..Len(cs) : cs[k] # " "
    /\ Cardinality({k \in 1..Len(cs) : cs[k] = "@"}) = 1
    /\ \E at \in 2..Len(cs) :
          /\ cs[at] = "@"
          /\ \E dot \in (at + 2)..(Len(cs) - 1) : cs[dot] = "."

\* the stored users that User.findOne({ $or: [{ email }, { username },
\* { phoneNumber }] }) matches
existingUser(body) ==
    {d \in Regs :
        /\ users[d].stored
        /\ \/ users[d].email = body.email
           \/ users[d].username = body.username
           \/ users[d].phoneNumber = body.phoneNumber}

AnswerReg(c, route, body, code) ==
    reg' = [reg EXCEPT ![c] = [route |-> route, pc |-> "done", body |-> body, status |-> code]]
SaveNext(c, route, body) ==
    reg' = [reg EXCEPT ![c] = [route |-> route, pc |-> "save", body |-> body, status |-> 0]]

\* part_001 lines 12-31: a field is missing, the email or the phone number
\* is malformed, or the password is shorter than 6 characters
RegistrationInvalid(body) ==
    IF ~Truthy(body.username) \/ ~Truthy(body.email) \/ ~Truthy(body.phoneNumber)
         \/ ~Truthy(body.password)
    THEN TRUE
    ELSE \/ ~emailRegex(body.email.s)
         \/ ~TenDigits(body.phoneNumber.s)
         \/ Len(body.password.s) < 6

\* part_001 lines 9-57: validation, then the lookup; a found user answers 400
\* when its email, username or phone number equals the body's
RegisterAuth(c, bodies) ==
    /\ reg[c].pc = "idle"
    /\ \E body \in bodies :
          IF RegistrationInvalid(body) THEN AnswerReg(c, "auth", body, BadInput)
          ELSE IF existingUser(body) = {} THEN SaveNext(c, "auth", body)
          ELSE LET user == users[CHOOSE d \in existingUser(body) : TRUE]
               IN  IF \/ user.email = body.email
                      \/ user.username = body.username
                      \/ user.phoneNumber = body.phoneNumber
                   THEN AnswerReg(c, "auth", body, BadInput)
                   ELSE SaveNext(c, "auth", body)
    /\ UNCHANGED <<users, beyondUsers>>

\* part_000 lines 20-46: the lookup; a found user answers 400
RegisterUsers(c, bodies) ==
    /\ reg[c].pc = "idle"
    /\ \E body \in bodies :
          IF existingUser(body) # {} THEN AnswerReg(c, "users", body, BadInput)
          ELSE SaveNext(c, "users", body)
    /\ UNCHANGED <<users, beyondUsers>>

\* await user.save() resolves: the user is stored and the call answers 201
SaveUser(c) ==
    /\ reg[c].pc = "save"
    /\ users' = [users EXCEPT ![c] =
            [stored |-> TRUE, username |-> reg[c].body.username,
             email |-> reg[c].body.email, phoneNumber |-> reg[c].body.phoneNumber]]
    /\ reg' = [reg EXCEPT ![c].pc = "done", ![c].status = CreatedRequest]
    /\ UNCHANGED beyondUsers

\* await user.save() rejects: the catch answers 500
FailUser(c) ==
    /\ reg[c].pc = "save"
    /\ reg' = [reg EXCEPT ![c].pc = "done", ![c].status = Failed]
    /\ UNCHANGED <<users, beyondUsers>>

\* registration bodies: two usernames, two emails, two phone numbers in every
\* combination, and the bodies the auth route rejects
RegBody(u, e, ph, pw) == [username |-> u, email |-> e, phoneNumber |-> ph, password |-> pw]
EmailA == Str(<<"a", "@", "b", ".", "c">>)
OtherPhone == Str(<<"9", "8", "7", "6", "5", "4", "3", "2", "1", "1">>)
GoodPassword == Str(<<"s", "e", "c", "r", "e", "t">>)
FreshBodies ==
    {RegBody(u, e, ph, GoodPassword) :
        u \in {UserAnn, UserBob}, e \in {EmailA, Str(<<"d", "@", "e", ".", "f">>)},
        ph \in {GoodPhone, OtherPhone}}
RegBodies ==
    FreshBodies \cup
    {RegBody(Undefined, EmailA, GoodPhone, GoodPassword),
     RegBody(UserAnn, Str(<<"a", "@", "b">>), GoodPhone, GoodPassword),
     RegBody(UserAnn, Str(<<"a", "b", ".", "c">>), GoodPhone, GoodPassword),
     RegBody(UserAnn, EmailA, Str(<<"1", "2", "3">>), GoodPassword),
     RegBody(UserAnn, EmailA, GoodPhone, Str(<<"p", "w">>))}

\* concurrent calls of the two register routes
NextRegister ==
    \E c \in Regs :
        \/ RegisterAuth(c, RegBodies)
        \/ RegisterUsers(c, FreshBodies)
        \/ SaveUser(c)
        \/ FailUser(c)
SpecRegister == Init /\ [][NextRegister]_vars

\* ------------------------------------------------- bulk match requests
(***************************************************************************)
(* src/unnamed/part_002 lines 155-234.  For every receiver phone the       *)
(* handler awaits MatchRequest.findOne and then matchRequest.save(); the   *)
(* WhatsApp notification that follows is inside a try/catch of its own and *)
(* changes neither array.  All requests are of one sender and one date.    *)
(***************************************************************************)

\* the end of one pass of the for loop: the next receiver, or res.status(201)
\* after the last one
NextReceiver(c, requests, errors) ==
    bulk' = [bulk EXCEPT
                ![c].requests = requests,
                ![c].errors = errors,
                ![c].k = bulk[c].k + 1,
                ![c].pc = IF bulk[c].k = Len(bulk[c].receiverPhones) THEN "done" ELSE "find",
                ![c].status = IF bulk[c].k = Len(bulk[c].receiverPhones)
                              THEN CreatedRequest ELSE 0]

\* lines 157-167: a missing field answers 400; receiverPhones that cannot be
\* iterated throws outside the inner try and answers 500; an empty array
\* answers 201 at once
ReceiveBulk(c, bodies) ==
    /\ bulk[c].pc = "idle"
    /\ \E body \in bodies :
          bulk' = [bulk EXCEPT ![c] =
              IF ~body.complete \/ body.receiverPhones.kind = "undefined"
              THEN [IdleBulk EXCEPT !.pc = "done", !.status = BadInput]
              ELSE IF body.receiverPhones.kind # "array"
              THEN [IdleBulk EXCEPT !.pc = "done", !.status = Failed]
              ELSE IF body.receiverPhones.list = <<>>
              THEN [IdleBulk EXCEPT !.pc = "done", !.status = CreatedRequest]
              ELSE [IdleBulk EXCEPT !.pc = "find", !.receiverPhones = body.receiverPhones.list]]
    /\ UNCHANGED <<pendingRequests, beyondBulk>>

\* MatchRequest.findOne({ senderPhone, receiverPhone, date, status: 'pending' })
existingRequest(receiverPhone) ==
    \E d \in Bulks : \E j \in 1..Len(pendingRequests[d]) : pendingRequests[d][j] = receiverPhone

\* lines 170-180: a pending request exists: a message in errors and continue;
\* otherwise the new request is handed to save
FindPending(c) ==
    /\ bulk[c].pc = "find"
    /\ LET receiverPhone == bulk[c].receiverPhones[bulk[c].k]
       IN  IF existingRequest(receiverPhone)
           THEN NextReceiver(c, bulk[c].requests, Append(bulk[c].errors, receiverPhone))
           ELSE bulk' = [bulk EXCEPT ![c].pc = "save"]
    /\ UNCHANGED <<pendingRequests, beyondBulk>>

\* lines 194-219: the request is stored and pushed to requests
SaveRequest(c) ==
    /\ bulk[c].pc = "save"
    /\ LET receiverPhone == bulk[c].receiverPhones[bulk[c].k]
       IN  /\ pendingRequests' = [pendingRequests EXCEPT ![c] = Append(@, receiverPhone)]
           /\ NextReceiver(c, Append(bulk[c].requests, receiverPhone), bulk[c].errors)
    /\ UNCHANGED beyondBulk

\* lines 220-222: findOne or save rejects: a message in errors, and the loop
\* goes on
FailRequest(c) ==
    /\ bulk[c].pc \in {"find", "save"}
    /\ NextReceiver(c, bulk[c].requests,
                    Append(bulk[c].errors, bulk[c].receiverPhones[bulk[c].k]))
    /\ UNCHANGED <<pendingRequests, beyondBulk>>

\* bulk bodies: receiverPhones of up to two phones out of two, repeated or
\* not, a number, none; a body without another required field
BulkBody(complete, kind, list) ==
    [complete |-> complete, receiverPhones |-> [kind |-> kind, list |-> list]]
BulkBodies ==
    {BulkBody(TRUE, "array", l) :
        l \in {<<>>, <<"p1">>, <<"p1", "p2">>, <<"p2", "p1">>, <<"p1", "p1">>}}
    \cup {BulkBody(TRUE, "number", <<>>), BulkBody(TRUE, "undefined", <<>>),
          BulkBody(FALSE, "array", <<"p1">>)}

\* concurrent calls of the bulk route
NextBulk ==
    \E c \in Bulks :
        \/ ReceiveBulk(c, BulkBodies)
        \/ FindPending(c)
        \/ SaveRequest(c)
        \/ FailRequest(c)
SpecBulk == Init /\ [][NextBulk]_vars

\* ------------------------------------------------------ the socket server
(***************************************************************************)
(* src/server.js lines 109-150.  A handled event records the user ids it   *)
(* named, the users with an open socket at that moment and the users the   *)
(* event was emitted to.                                                   *)
(***************************************************************************)

\* io.on('connection'): the listeners of the socket are registered
Connection(u) ==
    /\ u \notin sockets
    /\ sockets' = sockets \cup {u}
    /\ UNCHANGED <<connectedUsers, handled, beyondSockets>>

\* socket.on('disconnect'): a line is logged
Disconnect(u) ==
    /\ u \in sockets
    /\ sockets' = sockets \ {u}
    /\ UNCHANGED <<connectedUsers, handled, beyondSockets>>

\* const userSocketId = connectedUsers.get(userId); if (userSocketId)
\* io.to(userSocketId).emit(event, data), for each of the ids
Emitted(event, ids) ==
    [event |-> event, ids |-> ids, open |-> sockets,
     to |-> {u \in ids : connectedUsers[u] # 0}]

\* socket.on('matchRequestSent'): 'newMatchRequest' to the receiver
MatchRequestSent(receiverId) ==
    /\ sockets # {}
    /\ Len(handled) < MaxEvents
    /\ handled' = Append(handled, Emitted("newMatchRequest", {receiverId}))
    /\ UNCHANGED <<sockets, connectedUsers, beyondSockets>>

\* socket.on('matchRequestUpdated'): 'matchRequestUpdated' to the sender and
\* the receiver
MatchRequestUpdated(senderId, receiverId) ==
    /\ sockets # {}
    /\ Len(handled) < MaxEvents
    /\ handled' = Append(handled, Emitted("matchRequestUpdated", {senderId, receiverId}))
    /\ UNCHANGED <<sockets, connectedUsers, beyondSockets>>

\* clients connecting, disconnecting and emitting
NextSockets ==
    \E u, v \in SocketUsers :
        \/ Connection(u)
        \/ Disconnect(u)
        \/ MatchRequestSent(u)
        \/ MatchRequestUpdated(u, v)
SpecSockets == Init /\ [][NextSockets]_vars

\* ------------------------------------------------- the database connection
(***************************************************************************)
(* src/server.js lines 74-107.  An invocation of connectDB waits for       *)
(* mongoose.connect ("attempt") or for the 2 seconds between two attempts  *)
(* ("wait"), or has returned.  The 'disconnected' event is emitted when an *)
(* established connection is lost; the driver also re-establishes a lost   *)
(* connection by itself.  process.exit stops everything.                   *)
(***************************************************************************)
retries == 5

\* await mongoose.connect(...) resolves: return
ConnectSucceeds(l) ==
    /\ ~exited
    /\ loops[l].pc = "attempt"
    /\ loops' = [loops EXCEPT ![l].pc = "returned"]
    /\ connection' = "connected"
    /\ UNCHANGED <<exited, beyondDB>>

\* await mongoose.connect(...) rejects: process.exit(1) when i === retries - 1,
\* otherwise the 2 seconds are awaited
ConnectFails(l) ==
    /\ ~exited
    /\ loops[l].pc = "attempt"
    /\ IF loops[l].i = retries - 1
       THEN exited' = TRUE /\ UNCHANGED loops
       ELSE loops' = [loops EXCEPT ![l].pc = "wait"] /\ UNCHANGED exited
    /\ UNCHANGED <<connection, beyondDB>>

\* the timeout resolves: i++ and the next attempt
RetryConnect(l) ==
    /\ ~exited
    /\ loops[l].pc = "wait"
    /\ loops' = [loops EXCEPT ![l].pc = "attempt", ![l].i = loops[l].i + 1]
    /\ UNCHANGED <<connection, exited, beyondDB>>

\* mongoose.connection.on('disconnected'): the connection is lost and a new
\* connectDB() is started
Disconnected(l) ==
    /\ ~exited
    /\ connection = "connected"
    /\ loops[l].pc = "none"
    /\ \A m \in 1..(l - 1) : loops[m].pc # "none"
    /\ connection' = "disconnected"
    /\ loops' = [loops EXCEPT ![l] = [pc |-> "attempt", i |-> 0]]
    /\ UNCHANGED <<exited, beyondDB>>

\* the driver re-establishes the lost connection
Reconnected ==
    /\ ~exited
    /\ connection = "disconnected"
    /\ \E l \in Loops : loops[l].pc = "returned"
    /\ connection' = "connected"
    /\ UNCHANGED <<loops, exited, beyondDB>>

NextDB ==
    \/ \E l \in Loops :
          \/ ConnectSucceeds(l)
          \/ ConnectFails(l)
          \/ RetryConnect(l)
          \/ Disconnected(l)
    \/ Reconnected
SpecDB == Init /\ [][NextDB]_vars

\* ---------------------------------------------------------------- the claims
(***************************************************************************)
(* The vocabulary of the statements.  It is written from the payload, not  *)
(* from the route's steps: the names of the elevens as a set, the entries  *)
(* of all innings as one sequence, the first entry of a name.              *)
(***************************************************************************)
NamesOf(xi) == {xi.list[k] : k \in 1..Len(xi.list)}
ElevenNames(body) == NamesOf(body.teamA.xi) \cup NamesOf(body.teamB.xi)

\* the match save of request r was received and not answered 400, and its
\* body lists both elevens
PassedValidation(r) ==
    /\ req[r].pc # "idle"
    /\ req[r].status # BadRequest
    /\ req[r].body.teamA.xi.present
    /\ req[r].body.teamB.xi.present
UpdatesOf(r) == req[r].issued
UpdateIndex(r) == 1..Len(req[r].issued)

\* the lists of all innings, innings by innings; a missing list holds nothing
RECURSIVE EntriesFrom(_, _, _)
EntriesFrom(body, field, k) ==
    IF k > Len(body.innings.list) THEN <<>>
    ELSE body.innings.list[k][field].list \o EntriesFrom(body, field, k + 1)
AllBatting(body) == EntriesFrom(body, "batsmen", 1)
AllBowling(body) == EntriesFrom(body, "bowlers", 1)
Named(entries, nm) == {k \in 1..Len(entries) : entries[k].name = nm}
HasEntry(entries, nm) == Named(entries, nm) # {}
Selected(entries, nm) ==
    entries[CHOOSE k \in Named(entries, nm) : \A h \in Named(entries, nm) : k <= h]

\* c is the letter p in lower or upper case
SameLetter(c, p) ==
    c = p \/ \E i \in 1..Len(LowerAlphabet) : LowerAlphabet[i] = p /\ UpperAlphabet[i] = c
ContainsNotOut(cs) ==
    \E k \in 0..(Len(cs) - Len(NotOutText)) :
        \A j \in 1..Len(NotOutText) : SameLetter(cs[k + j], NotOutText[j])
IsNumberZero(v) == v.t = "number" /\ v.n = 0

\* C1: every match save that passed validation issued exactly one player
\* update per distinct name of teamA.xi and teamB.xi, N updates for N names
OneUpsertPerElevenName ==
    \A r \in Requests :
        PassedValidation(r) =>
            /\ Len(UpdatesOf(r)) = Cardinality(ElevenNames(req[r].body))
            /\ \A nm \in ElevenNames(req[r].body) :
                   Cardinality({k \in UpdateIndex(r) : UpdatesOf(r)[k].name = nm}) = 1

\* the ducks increment the statement of C2 gives: 1 iff the selected entry has
\* runs 0 and a status, some text, that does not contain 'not out'
DucksAsClaimed(body, nm) ==
    IF ~HasEntry(AllBatting(body), nm) THEN 0
    ELSE LET e == Selected(AllBatting(body), nm) IN
         IF /\ IsNumberZero(e.runs)
            /\ e.status.t = "string"
            /\ ~ContainsNotOut(e.status.s)
         THEN 1 ELSE 0

\* the same with a status that is a non-empty text
DucksAmended(body, nm) ==
    IF ~HasEntry(AllBatting(body), nm) THEN 0
    ELSE LET e == Selected(AllBatting(body), nm) IN
         IF /\ IsNumberZero(e.runs)
            /\ e.status.t = "string"
            /\ e.status.s # <<>>
            /\ ~ContainsNotOut(e.status.s)
         THEN 1 ELSE 0

\* C2 (as amended): the ducks increment of every player update is 1 if and
\* only if the player's first batting entry has runs equal to the number 0
\* and a non-empty text status that does not contain 'not out' in any letter
\* case; it is 0 otherwise, also when the status is missing or empty and when
\* the player has no batting entry
DucksIffDismissedOnZero ==
    \A r \in Requests : \A k \in UpdateIndex(r) :
        UpdatesOf(r)[k].inc.ducks = DucksAmended(req[r].body, UpdatesOf(r)[k].name)

\* C2 witness: a player out for 0 was issued a ducks increment of 1
DuckIssued ==
    \E r \in Requests : \E k \in UpdateIndex(r) :
        /\ UpdatesOf(r)[k].inc.ducks = 1
        /\ HasEntry(AllBatting(req[r].body), UpdatesOf(r)[k].name)
        /\ IsNumberZero(Selected(AllBatting(req[r].body), UpdatesOf(r)[k].name).runs)

\* C2 (as stated): the ducks increment is 1 if and only if the selected entry
\* has runs 0 and a status that does not contain 'not out'; 0 when the status
\* is missing
DucksIffStatusLacksNotOut ==
    \A r \in Requests : \A k \in UpdateIndex(r) :
        UpdatesOf(r)[k].inc.ducks = DucksAsClaimed(req[r].body, UpdatesOf(r)[k].name)

\* C3: for overs recorded as the number k + d/10 the ballsBowled increment is
\* exactly the integer 6*k + d
BallsBowledIsSixKPlusD ==
    \A r \in Requests : \A k \in UpdateIndex(r) :
        LET nm == UpdatesOf(r)[k].name
            entries == AllBowling(req[r].body)
        IN  (HasEntry(entries, nm) /\ Selected(entries, nm).overs.t = "number") =>
                UpdatesOf(r)[k].inc.ballsBowled =
                    FixFromNat(6 * (Selected(entries, nm).overs.n \div 10)
                                 + (Selected(entries, nm).overs.n % 10))

\* C4: in one match save the manOfTheMatchAwards increment is 1 for the player
\* whose name is exactly manOfTheMatch.name and 0 for every other player; all
\* are 0 when manOfTheMatch is absent or names nobody of the elevens; at most
\* one player receives the award
ManOfTheMatchOnlyExactName ==
    \A r \in Requests :
        LET body == req[r].body
            awarded == {k \in UpdateIndex(r) : UpdatesOf(r)[k].inc.manOfTheMatchAwards = 1}
        IN  /\ \A k \in UpdateIndex(r) :
                   UpdatesOf(r)[k].inc.manOfTheMatchAwards =
                       IF body.manOfTheMatch.present
                          /\ UpdatesOf(r)[k].name = body.manOfTheMatch.name
                       THEN 1 ELSE 0
            /\ Cardinality(awarded) <= 1
            /\ (~body.manOfTheMatch.present
                    \/ body.manOfTheMatch.name \notin ElevenNames(body)) => awarded = {}

\* C4 witness: two players were updated, the man of the match alone with an
\* award
OneOfTwoAwarded ==
    \E r \in Requests : \E k, h \in UpdateIndex(r) :
        /\ req[r].body.manOfTheMatch.present
        /\ UpdatesOf(r)[k].inc.manOfTheMatchAwards = 1
        /\ UpdatesOf(r)[h].inc.manOfTheMatchAwards = 0

\* the payloads C5 names: a validated property is missing, or innings is
\* missing, no sequence or empty
MissingOrEmpty(body) ==
    \/ body.teamA.name = Undefined
    \/ body.teamB.name = Undefined
    \/ body.overs = Undefined
    \/ body.innings.kind # "array"
    \/ body.innings.list = <<>>

\* C5: a match save whose teamA.name, teamB.name or overs is missing, or whose
\* innings is missing, no sequence or empty, is answered 400 in the step that
\* receives it; that step issues no update and leaves the player and match
\* stores as they are, and the request does nothing afterwards
InvalidSaveRejectedUntouched ==
    [][\A r \in Requests :
          /\ (req[r].pc = "idle" /\ req'[r].pc # "idle" /\ MissingOrEmpty(req'[r].body)) =>
                 /\ req'[r].status = BadRequest
                 /\ req'[r].issued = <<>>
                 /\ players' = players
                 /\ matches' = matches
          /\ (req[r].pc # "idle" /\ MissingOrEmpty(req[r].body)) =>
                 /\ req'[r] = req[r]
                 /\ ~matches'[r].saved]_vars

\* C5 witness: a save without overs was answered 400 while the player store
\* holds records of another save
RejectedBesideStoredPlayers ==
    \E r \in Requests :
        /\ req[r].status = BadRequest
        /\ req[r].body.overs = Undefined
        /\ \E nm \in PlayerNames : players[nm].exists

\* C6: a player of a starting eleven without any batting or bowling entry is
\* issued an update with matchesPlayed 1 and every other increment 0 (the
\* award excepted when the player is man of the match)
NoEntryPlayerGetsOneMatch ==
    \A r \in Requests :
        PassedValidation(r) =>
            \A nm \in ElevenNames(req[r].body) :
                (~HasEntry(AllBatting(req[r].body), nm)
                     /\ ~HasEntry(AllBowling(req[r].body), nm)) =>
                    \E k \in UpdateIndex(r) :
                        /\ UpdatesOf(r)[k].name = nm
                        /\ UpdatesOf(r)[k].inc =
                               [ZeroStats EXCEPT
                                    !.matchesPlayed = 1,
                                    !.manOfTheMatchAwards =
                                        IF req[r].body.manOfTheMatch.present
                                           /\ req[r].body.manOfTheMatch.name = nm
                                        THEN 1 ELSE 0]

\* C7: the players updated by a match save that passed validation are exactly
\* the names of the two elevens, and no name outside every eleven has a record
UpdatedAreTheElevens ==
    /\ \A r \in Requests :
           PassedValidation(r) =>
               {UpdatesOf(r)[k].name : k \in UpdateIndex(r)} = ElevenNames(req[r].body)
    /\ \A nm \in PlayerNames :
           players[nm].exists =>
               \E r \in Requests : req[r].pc # "idle" /\ nm \in ElevenNames(req[r].body)

\* C8: the batting increments of every player update are those of the first
\* batting entry with the player's name in the innings-ordered concatenation
\* of the lists, the bowling increments those of the first such bowling
\* entry; later entries of the name add nothing, and without an entry the
\* increments are 0
FirstEntryAlone ==
    \A r \in Requests : \A k \in UpdateIndex(r) :
        LET nm == UpdatesOf(r)[k].name
            inc == UpdatesOf(r)[k].inc
            bat == AllBatting(req[r].body)
            bowl == AllBowling(req[r].body)
        IN  /\ IF HasEntry(bat, nm)
               THEN /\ inc.totalRuns = IncOf(Selected(bat, nm).runs)
                    /\ inc.ballsFaced = IncOf(Selected(bat, nm).balls)
                    /\ inc.fours = IncOf(Selected(bat, nm).fours)
                    /\ inc.sixes = IncOf(Selected(bat, nm).sixes)
               ELSE inc.totalRuns = 0 /\ inc.ballsFaced = 0 /\ inc.fours = 0 /\ inc.sixes = 0
            /\ IF HasEntry(bowl, nm)
               THEN /\ inc.totalWickets = IncOf(Selected(bowl, nm).wickets)
                    /\ inc.runsConceded = IncOf(Selected(bowl, nm).runs)
                    /\ inc.ballsBowled =
                           BallsBowledOf(NumberOrZero(Selected(bowl, nm).overs).tenths)
               ELSE inc.totalWickets = 0 /\ inc.runsConceded = 0 /\ inc.ballsBowled = FixZero

\* C8 witness: an updated player has two batting entries with different runs
\* and two bowling entries with different wickets
RepeatedEntriesUpdated ==
    \E r \in Requests : \E k \in UpdateIndex(r) :
        LET nm == UpdatesOf(r)[k].name
            bat == AllBatting(req[r].body)
            bowl == AllBowling(req[r].body)
        IN  /\ \E i, j \in Named(bat, nm) : i < j /\ bat[i].runs # bat[j].runs
            /\ \E i, j \in Named(bowl, nm) : i < j /\ bowl[i].wickets # bowl[j].wickets

\* C9: every numeric increment issued for any player is greater than or equal
\* to zero
IncrementsNeverNegative ==
    \A r \in Requests : \A k \in UpdateIndex(r) :
        LET inc == UpdatesOf(r)[k].inc IN
        /\ inc.matchesPlayed >= 0 /\ inc.totalRuns >= 0 /\ inc.ballsFaced >= 0
        /\ inc.fours >= 0 /\ inc.sixes >= 0 /\ inc.ducks >= 0
        /\ inc.totalWickets >= 0 /\ inc.runsConceded >= 0
        /\ inc.manOfTheMatchAwards >= 0

\* no number, and no text that holds digits
NotNumeric(v) == v.t # "number" /\ ~(v.t = "string" /\ \E k \in 1..Len(v.s) : IsDigit(v.s[k]))

\* C10: in every issued update, a sub-field (runs, balls, fours, sixes,
\* wickets, overs) of the selected entry that is missing or not numeric
\* contributes an increment of exactly 0
NonNumericCountsZero ==
    \A r \in Requests : \A k \in UpdateIndex(r) :
        LET nm == UpdatesOf(r)[k].name
            inc == UpdatesOf(r)[k].inc
            bat == AllBatting(req[r].body)
            bowl == AllBowling(req[r].body)
        IN  /\ HasEntry(bat, nm) =>
                   /\ NotNumeric(Selected(bat, nm).runs) => inc.totalRuns = 0
                   /\ NotNumeric(Selected(bat, nm).balls) => inc.ballsFaced = 0
                   /\ NotNumeric(Selected(bat, nm).fours) => inc.fours = 0
                   /\ NotNumeric(Selected(bat, nm).sixes) => inc.sixes = 0
            /\ HasEntry(bowl, nm) =>
                   /\ NotNumeric(Selected(bowl, nm).wickets) => inc.totalWickets = 0
                   /\ NotNumeric(Selected(bowl, nm).runs) => inc.runsConceded = 0
                   /\ NotNumeric(Selected(bowl, nm).overs) => inc.ballsBowled = FixZero

\* C11: a match save that passed structural validation never fails while its
\* increments are computed: an answer of 500 comes from persistence alone,
\* that is from a failed upsert, or from the match write after one applied
\* upsert per distinct name of the two listed elevens
ValidatedNeverThrows ==
    \A r \in Requests :
        (req[r].pc # "idle" /\ req[r].status = ServerError) =>
            \/ \E k \in 1..Len(req[r].settle) : req[r].settle[k] = "failed"
            \/ /\ req[r].body.teamA.xi.present
               /\ req[r].body.teamB.xi.present
               /\ Len(req[r].settle) = Cardinality(ElevenNames(req[r].body))
               /\ \A k \in 1..Len(req[r].settle) : req[r].settle[k] = "applied"

\* the increments of nm applied so far by the requests 1..r, added up; one
\* request holds at most one update of a name
RECURSIVE AppliedSum(_, _)
AppliedSum(nm, r) ==
    IF r = 0 THEN ZeroStats
    ELSE LET hits == {k \in UpdateIndex(r) :
                         UpdatesOf(r)[k].name = nm /\ req[r].settle[k] = "applied"}
         IN  IF hits = {} THEN AppliedSum(nm, r - 1)
             ELSE AddStats(AppliedSum(nm, r - 1), UpdatesOf(r)[CHOOSE k \in hits : TRUE].inc)

\* C12: in every interleaving of concurrent match saves, every statistic of
\* every player equals its initial value plus the sum of the increments of
\* all upserts applied for the player, so after two successful saves that
\* both include the player it holds the sum of both: no increment is lost
NoIncrementLost ==
    \A nm \in PlayerNames :
        /\ players[nm].stats = AppliedSum(nm, MaxReq)
        /\ players[nm].exists <=>
               \E r \in Requests : \E k \in UpdateIndex(r) :
                   UpdatesOf(r)[k].name = nm /\ req[r].settle[k] = "applied"

\* C12 witness: two saves that both include player a were both answered 201
\* and a has played two matches
TwoSavesOfOnePlayerDone ==
    \E r1, r2 \in Requests :
        /\ r1 # r2
        /\ req[r1].status = Created
        /\ req[r2].status = Created
        /\ "a" \in ElevenNames(req[r1].body) \cap ElevenNames(req[r2].body)
        /\ players["a"].stats.matchesPlayed = 2

\* C13: a match record is stored only after every player upsert of its save
\* was applied; its players list holds the identifiers those upserts returned,
\* in their order, one per distinct name of the two elevens; and every player
\* a stored match references has a record
MatchStoredAfterItsUpserts ==
    \A r \in Requests :
        matches[r].saved =>
            /\ \A k \in 1..Len(req[r].settle) : req[r].settle[k] = "applied"
            /\ matches[r].players = [k \in UpdateIndex(r) |-> UpdatesOf(r)[k].name]
            /\ Len(matches[r].players) = Cardinality(ElevenNames(req[r].body))
            /\ {matches[r].players[k] : k \in 1..Len(matches[r].players)}
                   = ElevenNames(req[r].body)
            /\ \A k \in 1..Len(matches[r].players) : players[matches[r].players[k]].exists

\* C13 witness: a match of two players is stored
MatchOfTwoStored ==
    \E r \in Requests :
        /\ matches[r].saved
        /\ Len(matches[r].players) = 2
        /\ req[r].status = Created

\* C15: two match saves with equal payloads are issued equal per-player
\* increments, in every state of the player store and in every interleaving
\* with other saves
EqualPayloadsEqualIncrements ==
    \A r1, r2 \in Requests :
        (req[r1].pc # "idle" /\ req[r2].pc # "idle" /\ req[r1].body = req[r2].body) =>
            UpdatesOf(r1) = UpdatesOf(r2)

\* C15 witness: two saves of one payload, the first answered 201 and its
\* players stored, the second with all its updates still pending
SamePayloadOverChangedStore ==
    \E r1, r2 \in Requests :
        /\ r1 # r2
        /\ req[r1].body = req[r2].body
        /\ req[r1].status = Created
        /\ req[r2].pc = "updating"
        /\ Len(UpdatesOf(r2)) = 2
        /\ \A k \in UpdateIndex(r2) :
               req[r2].settle[k] = "pending" /\ players[UpdatesOf(r2)[k].name].exists

\* the payloads C16 names: both team names are non-empty text, overs is a
\* number and innings is a non-empty sequence
AllRequiredPresent(body) ==
    /\ body.teamA.name.t = "string" /\ body.teamA.name.s # <<>>
    /\ body.teamB.name.t = "string" /\ body.teamB.name.s # <<>>
    /\ body.overs.t = "number"
    /\ body.innings.kind = "array"
    /\ body.innings.list # <<>>

\* C16: a match save in which teamA.name, teamB.name and overs are present
\* and innings is a non-empty sequence is never answered 400, whatever the
\* values, a numeric overs of 0 included
PresentFieldsNeverRejected ==
    \A r \in Requests :
        (req[r].pc # "idle" /\ AllRequiredPresent(req[r].body)) =>
            req[r].status # BadRequest

\* the failures C17 names: an upsert of the request was rejected, or the match
\* write was rejected after all of them were applied
PersistenceFailed(r) ==
    \/ \E k \in 1..Len(req[r].settle) : req[r].settle[k] = "failed"
    \/ /\ req[r].status = ServerError
       /\ req[r].settle # <<>>
       /\ \A k \in 1..Len(req[r].settle) : req[r].settle[k] = "applied"

\* C17: when an upsert of a match save or its match write fails, the request
\* is answered with the error status 500 and no match record of it is stored,
\* then or later; and no step takes back an applied increment: a player record
\* that exists stays, with every statistic as it was or increased by an upsert
FailureStoresNoMatchNoRollback ==
    [][\A r \in Requests :
          /\ PersistenceFailed(r)' => (req'[r].status = ServerError /\ ~matches'[r].saved)
          /\ \A k \in 1..Len(req[r].settle) :
                 req[r].settle[k] = "applied" =>
                     /\ req'[r].settle[k] = "applied"
                     /\ players'[req[r].issued[k].name].exists
                     /\ \/ players'[req[r].issued[k].name] = players[req[r].issued[k].name]
                        \/ \E r2 \in Requests : \E k2 \in 1..Len(req[r2].settle) :
                               /\ req[r2].settle[k2] = "pending"
                               /\ players' = Upsert(players, req[r2].issued[k2])]_vars

\* C17 witness: one upsert of a save failed and another was applied; the
\* request is answered 500, the applied player has a record, no match is stored
OneFailedOneApplied ==
    \E r \in Requests : \E k, h \in 1..Len(req[r].settle) :
        /\ req[r].settle[k] = "failed"
        /\ req[r].settle[h] = "applied"
        /\ req[r].status = ServerError
        /\ players[req[r].issued[h].name].exists
        /\ ~matches[r].saved

\* the start and the end of a stored slot, in minutes of the day
SlotStart(p) == convertTimeToMinutes(slots[p].timeFrom.s)
SlotEnd(p) == convertTimeToMinutes(slots[p].timeTo.s)

\* C18: no two stored availability slots of one username on one calendar day
\* overlap in time
NoOverlappingSlots ==
    \A p, q \in Posts :
        (/\ p # q
         /\ slots[p].stored /\ slots[q].stored
         /\ slots[p].username = slots[q].username
         /\ slots[p].date.n = slots[q].date.n) =>
            ~(SlotStart(p) < SlotEnd(q) /\ SlotStart(q) < SlotEnd(p))

\* C19: every stored availability slot ends after it starts, lasts at least
\* 30 minutes and lies within 06:00 to 22:00, its start and its end
StoredSlotInBusinessHours ==
    \A p \in Posts :
        slots[p].stored =>
            /\ SlotStart(p) < SlotEnd(p)
            /\ SlotEnd(p) - SlotStart(p) >= 30
            /\ SlotStart(p) >= 6 * 60
            /\ SlotEnd(p) <= 22 * 60

\* C14: a WhatsApp send that fails never fails the request: the call that
\* attempted it answers the status it answers when the send succeeds (201
\* for a new friend request or match request, 200 for a response and for the
\* webhook), and a document the call inserted before the send stays stored.
SendFailureNeverFailsRequest ==
    \A c \in Calls :
        call[c].sent = "failed" =>
            /\ call[c].status = SuccessOf(call[c].route)
            /\ call[c].route = "friendRequest" => friendDocs[c].exists
            /\ call[c].route = "matchRequest" => matchRequests[c]

\* C20: once every call has been answered, a friend request with status
\* 'rejected', the only request between the two users, never coexists with
\* the two users being in each other's friends lists.
RejectedNeverFriends ==
    \A d \in Calls :
        ( /\ \A c \in Calls : call[c].pc \in {"idle", "done"}
          /\ friendDocs[d].exists
          /\ friendDocs[d].status = "rejected"
          /\ \A e \in Calls \ {d} : ~friendDocs[e].exists )
        => ~(friends.sender /\ friends.receiver)

\* C21: no two stored users share a username, an email or a phone number.
NoTwoUsersShareKey ==
    \A c, d \in Regs :
        (c # d /\ users[c].stored /\ users[d].stored) =>
            /\ users[c].username # users[d].username
            /\ users[c].email # users[d].email
            /\ users[c].phoneNumber # users[d].phoneNumber

\* C22: the bulk route never stores a second pending request for the same
\* sender, receiver and date: no receiver phone is stored twice.
NoSecondPendingRequest ==
    \A c, d \in Bulks :
        \A j \in 1..Len(pendingRequests[c]), m \in 1..Len(pendingRequests[d]) :
            (c # d \/ j # m) => pendingRequests[c][j] # pendingRequests[d][m]

\* C23: every handled 'matchRequestSent' and 'matchRequestUpdated' was
\* emitted to each user it named who had an open socket at that moment.
EventsReachConnectedUsers ==
    \A k \in 1..Len(handled) :
        (handled[k].ids \cap handled[k].open) \subseteq handled[k].to

\* C24: at most one invocation of connectDB is in its retry loop (waiting
\* for an attempt or between two attempts) at any time.
AtMostOneLoopRunning ==
    Cardinality({l \in Loops : loops[l].pc \in {"attempt", "wait"}}) <= 1

====
